---- MODULE Spec2Model ----
(***************************************************************************)
(* Model of the single-file uploader (src/uploader.py): main(),            *)
(* VKUploader.upload_video and WireGuardManager.                           *)
(*                                                                         *)
(* Sizes are in bytes, as in the source.  HTTP, the VK API, the file       *)
(* system calls and the wg/wg-quick subprocesses are the environment:      *)
(* each call is a nondeterministic choice over the outcomes the call can   *)
(* have (a status, an exception class, a return code).                     *)
(***************************************************************************)
EXTENDS Integers, Sequences, FiniteSets, TLC

(* ------------------------------ bounds --------------------------------- *)
\* longest chunk plan explored
MaxChunks == 3
\* largest UPLOAD_CHUNK_SIZE_MB explored for files below the streaming limit
MaxChunkMB == 2
\* UPLOAD_CHUNK_SIZE_MB used with the file above the streaming limit
StreamChunkMB == 600
\* number of *.conf files in the WireGuard directory
PoolSize == 3
\* number of successive runs of main() followed by SpecWG
MaxRuns == 5
\* largest MAX_CONCURRENT explored in continuous mode
MaxConcurrent == 2
\* most video files in the directory in continuous mode
MaxVideos == 2
\* most kills of the continuous process followed by a restart
MaxCrashes == 1
\* most consecutive calls of _check_upload_status on one session
MaxQueries == 3

(* ------------------------- program constants --------------------------- *)
MiB == 1048576
\* use_streaming = file_size_gb > 1.5, i.e. file_size > 1.5 * 2^30 bytes
StreamLimitBytes == 1610612736
DefaultMaxRetries == 3
max_consecutive_timeouts == 3
MaxParallel == 3
MaxParallelStreaming == 2

Min(a, b) == IF a < b THEN a ELSE b

(* --------------------------- WireGuardManager -------------------------- *)
\* "no value": None in the source, a missing or empty file for the marker
NoConfig == "none"
\* a marker written when the directory held another set of files
StaleConfig == "stale.conf"
Paths == <<"wg0.conf", "wg1.conf", "wg2.conf", "wg3.conf", "wg4.conf">>

\* get_available_configs: the glob of the directory, a fixed list here
AvailableConfigs(n) == SubSeq(Paths, 1, n)

\* configs.index(last_path); 0 stands for ValueError
IndexOf(cfgs, p) ==
    IF \E i \in 1..Len(cfgs) : cfgs[i] = p
    THEN CHOOSE i \in 1..Len(cfgs) :
            cfgs[i] = p /\ \A j \in 1..(i - 1) : cfgs[j] # p
    ELSE 0

\* the increment forgotten
NextIndexStuck(last_index, n) == last_index

\* next_index = (last_index + 1) % len(configs), on the 1-based sequence
NextIndex(last_index, n) == (last_index % n) + 1

\* get_next_config
GetNextConfig(cfgs, last_config) ==
    IF Len(cfgs) = 0 THEN NoConfig
    ELSE IF last_config # NoConfig /\ IndexOf(cfgs, last_config) # 0
         THEN cfgs[NextIndex(IndexOf(cfgs, last_config), Len(cfgs))]
         ELSE cfgs[1]

(* ------------------------------ chunk plan ----------------------------- *)
\* the last chunk not clamped to the end of the file
CurrentChunkSizeUnclamped(bytes_uploaded, fsize, csize) == csize

\* current_chunk_size = min(self.chunk_size, file_size - bytes_uploaded)
CurrentChunkSize(bytes_uploaded, fsize, csize) ==
    Min(csize, fsize - bytes_uploaded)

RECURSIVE ChunkPlan(_, _, _)
\* the two `while bytes_uploaded < file_size` loops build the same ranges
ChunkPlan(bytes_uploaded, fsize, csize) ==
    IF bytes_uploaded < fsize
    THEN <<<<bytes_uploaded, CurrentChunkSize(bytes_uploaded, fsize, csize)>>>>
         \o ChunkPlan(bytes_uploaded
                        + CurrentChunkSize(bytes_uploaded, fsize, csize),
                      fsize, csize)
    ELSE <<>>

UseStreaming(fsize) == fsize > StreamLimitBytes

\* one worker per chunk of the plan
MaxWorkersPerChunk(skip, fsize, nchunks) == nchunks

\* max_workers as computed before the executor is created
MaxWorkers(skip, fsize, nchunks) ==
    IF skip THEN Min(MaxParallel, nchunks)
    ELSE IF UseStreaming(fsize) THEN Min(MaxParallelStreaming, nchunks)
    ELSE Min(MaxParallel, nchunks)

(* ---------------------------- input domains ---------------------------- *)
ChunkSizes == {m * MiB : m \in 1..MaxChunkMB} \cup {StreamChunkMB * MiB}
FileSizes ==
    {q * MiB + r : q \in 0..MaxChunks, r \in {0, 1}}
      \cup {StreamLimitBytes + 1}
RetryChoices == 0..DefaultMaxRetries
\* number of ranges of a plan over the whole file
NumChunks(fsize, csize) ==
    (fsize \div csize) + (IF fsize % csize = 0 THEN 0 ELSE 1)

VARIABLES
    pc,                  \* position in main() / upload_video
    file_size, chunk_size, skip_vpn, max_retries,
    attempt,             \* loop variable of upload_video (0-based)
    start_byte, chunks_to_upload, max_workers,
    chunk_state,         \* per submitted future: queued, running, ok, failed
    merged,              \* results taken from as_completed, in that order
    total_uploaded, consecutive_timeouts,
    exc,                 \* the exception being propagated / last handled
    last_failure_reason, wait_time, retval,
    configs, last_config_file, current_config, active,
    teardowns, bringups, \* calls of disconnect_wireguard / connect_wireguard
    selected,            \* per rotation: the path get_next_config returned,
                         \* the marker it read, connect_wireguard's result
    runs, exit_code, failure_file,
    upload_url,          \* save_response["upload_url"]: k for the URL that
                         \* the k-th video.save of the call returned, 0 unset
    probes,              \* the URLs _check_upload_status was called with
                         \* in this iteration of the retry loop
    probe_response,      \* outcome of the GET of _check_upload_status,
                         \* until the plan is built from its result
    chunk_call,          \* one call of _upload_chunk: its payload and range
    posts,               \* what became of each POST the session sent for it
    chunk_result,        \* the value the call returned
    max_concurrent, videos, uploaded,
    sup_pc,              \* position of StandaloneUploader.run
    workers,             \* per VideoWorker: position, video_file, config
    work_queue, unfinished_tasks,
    active_connections,  \* WireGuardManager.active_connections
    interfaces,          \* per wg<i>: the config it is up with, or NoConfig
    completed,           \* the videos an upload pass returned True for
    crashes,             \* times the continuous process was killed
    remote,              \* what the remote service holds for the session
    offsets              \* what successive calls of _check_upload_status
                         \* returned since the last chunk was stored

vars == <<pc, file_size, chunk_size, skip_vpn, max_retries, attempt,
          start_byte, chunks_to_upload, max_workers, chunk_state, merged,
          total_uploaded, consecutive_timeouts, exc, last_failure_reason,
          wait_time, retval, configs, last_config_file, current_config,
          active, teardowns, bringups, selected, runs, exit_code,
          failure_file, upload_url, probes, probe_response, chunk_call,
          posts, chunk_result, max_concurrent, videos, uploaded, sup_pc,
          workers, work_queue, unfinished_tasks, active_connections,
          interfaces, completed, crashes, remote, offsets>>

probeVars == <<upload_url, probes, probe_response>>
callVars == <<chunk_call, posts, chunk_result>>
contVars == <<max_concurrent, videos, uploaded, sup_pc, workers, work_queue,
              unfinished_tasks, active_connections, interfaces, completed,
              crashes>>
queryVars == <<remote, offsets>>

uploadVars == <<attempt, start_byte, chunks_to_upload, max_workers,
                chunk_state, merged, total_uploaded, consecutive_timeouts,
                exc, last_failure_reason, wait_time, retval>>
paramVars == <<file_size, chunk_size, skip_vpn, max_retries, configs>>
wgVars == <<last_config_file, current_config, active, teardowns, bringups,
            selected>>
mainVars == <<runs, exit_code, failure_file>>
\* the state of the single-file program and of one chunk call
singleFileVars == <<pc, paramVars, uploadVars, wgVars, mainVars, probeVars,
                    callVars, queryVars>>

NoExc == [cls |-> "none", msg |-> "none"]

\* the handler not waiting for the executor's shutdown
AllFinishedNoWait == TRUE

\* the `with ThreadPoolExecutor` block is left: shutdown(wait=True) has
\* returned, every submitted chunk has run to its end
AllFinished == \A i \in DOMAIN chunk_state : chunk_state[i] \in {"ok", "failed"}
\* every chunk of the plan counted as merged
MergedIdxWholePlan == DOMAIN chunk_state

\* the chunks whose result the loop over as_completed has taken
MergedIdx == {merged[k].idx : k \in DOMAIN merged}

\* values _check_upload_status may return: 0 (no usable header, or the
\* probe failed), one chunk stored, the whole file stored, or an offset
\* past the end of the file (the header is taken as the server sends it)
ProbeOffsets(fsize, csize) == {0, Min(csize, fsize), fsize, fsize + 1}

\* a header of the probe's response.  k is "absent", "value" (v is the
\* integer it carries), "garbage" (int() raises ValueError on it) or, for
\* Range, "unusable" (no "bytes=", not two parts, or an empty last byte)
Header(k, v) == [k |-> k, v |-> v]
RangeHeaders(fsize, csize) ==
    {Header("absent", 0), Header("unusable", 0), Header("garbage", 0)}
      \cup {Header("value", o - 1) : o \in ProbeOffsets(fsize, csize) \ {0}}
LastKnownByteHeaders(fsize, csize) ==
    {Header("absent", 0), Header("garbage", 0)}
      \cup {Header("value", o) : o \in ProbeOffsets(fsize, csize)}

NoResponse == [status |-> "none", range |-> Header("absent", 0),
               xlkb |-> Header("absent", 0)]
\* the GET raised, or raise_for_status() did
ErrorResponse == [status |-> "error", range |-> Header("absent", 0),
                  xlkb |-> Header("absent", 0)]
\* the answers explored: every X-Last-Known-Byte header without a Range
\* header, and every Range header alone or beside an X-Last-Known-Byte
\* header that names another offset
ProbeResponses(fsize, csize) ==
    {ErrorResponse}
      \cup [status : {"ok"}, range : {Header("absent", 0)},
            xlkb : LastKnownByteHeaders(fsize, csize)]
      \cup [status : {"ok"}, range : RangeHeaders(fsize, csize),
            xlkb : {Header("absent", 0), Header("value", fsize + 2)}]

\* a failed probe answering 1 instead of 0
CheckUploadStatusNoDefault(response) ==
    IF response.status = "error" THEN 1
    ELSE IF response.range.k # "absent"
         THEN (IF response.range.k = "value"
               THEN response.range.v + 1
               ELSE 0)
         ELSE (IF response.xlkb.k = "value"
               THEN response.xlkb.v
               ELSE 0)

\* _check_upload_status, given what the GET produced
CheckUploadStatus(response) ==
    IF response.status = "error" THEN 0
    ELSE IF response.range.k # "absent"
         THEN (IF response.range.k = "value"
               THEN response.range.v + 1
               ELSE 0)
         ELSE (IF response.xlkb.k = "value"
               THEN response.xlkb.v
               ELSE 0)

(* ---------------------------- _upload_chunk ---------------------------- *)
\* what self.upload_session.post(...) gives back to _upload_chunk: a
\* response with a status code, or an exception of requests
Response(status) == [kind |-> "response", status |-> status, cls |-> "none"]
Raised(cls) == [kind |-> "exception", status |-> 0, cls |-> cls]
StatusCodes == {200, 201, 400, 503}
PostResults ==
    {Response(st) : st \in StatusCodes}
      \cup {Raised(c) : c \in {"ConnectTimeout", "Timeout",
                               "ConnectionError", "RetryError"}}

\* 200 and 201 no longer told from the other status codes
UploadChunkAnyStatus(actual_chunk_size, post) ==
    IF post.kind = "response"
    THEN [success |-> TRUE, bytes |-> actual_chunk_size]
    ELSE [success |-> FALSE, bytes |-> 0]

\* the value _upload_chunk returns for a payload of actual_chunk_size
\* bytes; post is read only when the payload is not empty
UploadChunk(actual_chunk_size, post) ==
    IF actual_chunk_size = 0
    THEN [success |-> TRUE, bytes |-> 0]
    ELSE IF post.kind = "response" /\ post.status \in {200, 201}
         THEN [success |-> TRUE, bytes |-> actual_chunk_size]
         ELSE [success |-> FALSE, bytes |-> 0]

\* the adapter mounted by _create_upload_session: Retry(total=2, connect=2,
\* read=2, status_forcelist=[500, 502, 503, 504], allowed_methods=False)
RetryTotal == 2
status_forcelist == {500, 502, 503, 504}

\* what became of one POST put on the wire
Reply(kind, status) == [kind |-> kind, status |-> status]
WireReplies ==
    {Reply("status", st) : st \in StatusCodes}
      \cup {Reply(k, 0) : k \in {"connect_timeout", "connect_error",
                                 "read_timeout", "read_error"}}

\* Retry.increment / Retry.is_retry: the adapter takes the reply as a
\* failure to retry (any method, since allowed_methods is False)
Retryable(reply) ==
    reply.kind # "status" \/ reply.status \in status_forcelist

\* the adapter sends the request again: the last reply is retryable and
\* `total` is not used up
Resend(replies) ==
    /\ Retryable(replies[Len(replies)])
    /\ Len(replies) <= RetryTotal

\* what post() hands to _upload_chunk once the adapter stops: the response,
\* or the exception requests makes of urllib3's MaxRetryError
PostResult(replies) ==
    LET last == replies[Len(replies)] IN
      IF ~Retryable(last) THEN Response(last.status)
      ELSE IF last.kind = "status" THEN Raised("RetryError")
      ELSE IF last.kind = "connect_timeout" THEN Raised("ConnectTimeout")
      ELSE Raised("ConnectionError")

\* the requests of a call that reached the remote service: the replies
\* that are not failures to connect
ReachedRemote(replies) ==
    {k \in DOMAIN replies :
        replies[k].kind \in {"status", "read_timeout", "read_error"}}

NoCall == [start |-> 0, size |-> 0, payload |-> 0, read |-> "none"]
NoResult == [success |-> FALSE, bytes |-> -1]

InitCall ==
    /\ chunk_call = NoCall
    /\ posts = <<>>
    /\ chunk_result = NoResult

(* ------------------- uploader-standalone.py: state --------------------- *)
\* MAX_CONCURRENT when the environment does not set it
DefaultMaxConcurrent == 5
\* None put on the queue by _stop_workers
PoisonPill == 0
\* a dict with no key: no worker started, no connection, no interface up
NoWorkers == [w \in {} |-> NoConfig]

\* d[key] = value and `del d[key]` on a dict kept as a function
DictSet(d, key, value) ==
    [x \in DOMAIN d \cup {key} |-> IF x = key THEN value ELSE d[x]]
DictDel(d, key) == [x \in DOMAIN d \ {key} |-> d[x]]

\* StandaloneUploader() constructed, run() not yet called
InitSupervisor ==
    /\ uploaded = {}
    /\ completed = {}
    /\ crashes = 0
    /\ sup_pc = "init"
    /\ workers = NoWorkers
    /\ work_queue = <<>>
    /\ unfinished_tasks = 0
    /\ active_connections = NoWorkers
    /\ interfaces = NoWorkers

InitStandalone ==
    /\ max_concurrent = DefaultMaxConcurrent
    /\ videos = {}
    /\ InitSupervisor

(* ------------------------------ the probe ------------------------------ *)
\* the probe skipped on no attempt
NeedsProbeAlways(att) == TRUE

\* `if attempt > 0:` around the call of _check_upload_status
NeedsProbe(att) == att > 0

(* ------------------------------- Init ---------------------------------- *)
\* the locals of upload_video before the call, the process state at start
InitProbe ==
    /\ upload_url = 0
    /\ probes = <<>>
    /\ probe_response = NoResponse

\* no session queried: the remote holds nothing, no offset was returned
NoSession == [stored |-> 0, header |-> "none"]
InitQuery ==
    /\ remote = NoSession
    /\ offsets = <<>>

InitUploader ==
    /\ InitProbe
    /\ attempt = 0
    /\ start_byte = 0
    /\ chunks_to_upload = <<>>
    /\ max_workers = 0
    /\ chunk_state = <<>>
    /\ merged = <<>>
    /\ total_uploaded = 0
    /\ consecutive_timeouts = 0
    /\ exc = NoExc
    /\ last_failure_reason = "none"
    /\ wait_time = 0
    /\ retval = "none"
    /\ current_config = NoConfig
    /\ active = {}
    /\ teardowns = 0
    /\ bringups = 0
    /\ selected = <<>>
    /\ runs = 1
    /\ exit_code = -1
    /\ failure_file = "old"

InitRun ==
    /\ pc = "main"
    /\ InitUploader
    /\ InitQuery
    /\ InitCall
    /\ InitStandalone

\* one run of main(): any file and chunk size within the bounds, an empty
\* or a full pool, no marker or the marker on the last path of the pool
Init ==
    /\ InitRun
    /\ file_size \in FileSizes
    /\ chunk_size \in ChunkSizes
    /\ UseStreaming(file_size) <=> chunk_size = StreamChunkMB * MiB
    /\ NumChunks(file_size, chunk_size) <= MaxChunks
    /\ skip_vpn \in BOOLEAN
    /\ max_retries \in RetryChoices
    /\ configs \in {AvailableConfigs(0), AvailableConfigs(PoolSize)}
    /\ last_config_file \in
         {NoConfig} \cup {configs[i] : i \in {Len(configs)} \ {0}}

(* --------------------------- WireGuardManager -------------------------- *)
\* disconnect_wireguard, called with the interfaces in act up: `wg-quick
\* down` per interface found; the return codes are ignored and exceptions
\* swallowed, so any of them may stay up
DisconnectWireguard(act, downs, remaining) ==
    /\ remaining \subseteq act
    /\ teardowns' = downs + 1

\* a directory whose second file name holds the first one's stem
ClashPaths == <<"wg1.conf", "wg10.conf">>

\* `config_name in check_result.stdout`: the stem of cfg is found in the
\* text `wg show` prints for the interfaces in act, as the name of one of
\* them or inside the longer name of another
ListedInWgShow(cfg, act) ==
    \E a \in act :
       a = cfg \/ (cfg = ClashPaths[1] /\ a = ClashPaths[2])

ConnectOutcomes == {"already", "up_ok", "up_fail"}

\* connect_wireguard(config_path) called with the interfaces in act up;
\* ok is its return value.
\*   already: `wg show` lists the config, nothing is torn down
\*   up_ok:   `wg-quick up` returned 0 or said "already exists"
\*   up_fail: non-zero return code, TimeoutExpired or another exception
ConnectWireguard(act, downs, cfg, outcome, remaining, ok) ==
    /\ bringups' = bringups + 1
    /\ outcome \in ConnectOutcomes
    /\ IF outcome = "already"
       THEN /\ ListedInWgShow(cfg, act)
            /\ remaining = act
            /\ active' = act
            /\ teardowns' = downs
            /\ current_config' = cfg
            /\ last_config_file' = cfg
            /\ ok = TRUE
       ELSE /\ DisconnectWireguard(act, downs, remaining)
            /\ IF outcome = "up_ok"
               THEN /\ active' = remaining \cup {cfg}
                    /\ current_config' = cfg
                    /\ last_config_file' = cfg
                    /\ ok = TRUE
               ELSE /\ active' = remaining
                    /\ UNCHANGED <<current_config, last_config_file>>
                    /\ ok = FALSE

(* -------------------------------- main --------------------------------- *)
\* main: "Rotate WireGuard configuration (unless skipped)"
MainConnect ==
    /\ pc = "main"
    /\ pc' = "find"
    /\ IF skip_vpn \/ GetNextConfig(configs, last_config_file) = NoConfig
       THEN UNCHANGED wgVars
       ELSE \E outcome \in ConnectOutcomes, remaining \in SUBSET active,
               ok \in BOOLEAN :
              /\ ConnectWireguard(active, teardowns,
                                  GetNextConfig(configs, last_config_file),
                                  outcome, remaining, ok)
              /\ selected' = Append(selected,
                     [path |-> GetNextConfig(configs, last_config_file),
                      last |-> last_config_file, ok |-> ok])
    /\ UNCHANGED <<queryVars, contVars, callVars, probeVars>>
    /\ UNCHANGED <<paramVars, uploadVars, mainVars>>

\* a `finally:` that disconnects also when rotation is disabled
MainCleanupAlways(remaining) ==
    /\ DisconnectWireguard(active, teardowns, remaining)
    /\ active' = remaining

\* the `finally:` of main
MainCleanup(remaining) ==
    IF skip_vpn
    THEN /\ remaining = active
         /\ UNCHANGED <<active, teardowns>>
    ELSE /\ DisconnectWireguard(active, teardowns, remaining)
         /\ active' = remaining

\* find_video_file returned None: sys.exit(0), then the cleanup
FindVideoNone ==
    /\ pc = "find"
    /\ pc' = "exit"
    /\ exit_code' = 0
    /\ \E remaining \in SUBSET active : MainCleanup(remaining)
    /\ UNCHANGED <<queryVars, contVars, callVars, probeVars>>
    /\ UNCHANGED <<paramVars, uploadVars, last_config_file, current_config,
                   bringups, selected, runs, failure_file>>

\* a video file was found: main calls upload_video
FindVideoFound ==
    /\ pc = "find"
    /\ pc' = "open"
    /\ attempt' = 0
    /\ UNCHANGED <<queryVars, contVars, callVars, probeVars>>
    /\ UNCHANGED <<paramVars, start_byte, chunks_to_upload, max_workers,
                   chunk_state, merged, total_uploaded, consecutive_timeouts,
                   exc, last_failure_reason, wait_time, retval, wgVars,
                   mainVars>>

\* main after upload_video returned.  True: move_to_trash, then the
\* failure file, if there is one, is unlinked; an OSError of the unlink
\* reaches `except Exception: sys.exit(1)`.  False: write_failure_status,
\* which keeps a failed write to itself, then sys.exit(1)
MainFinish ==
    /\ pc = "done"
    /\ pc' = "exit"
    /\ IF retval = "True"
       THEN \E unlinked \in IF failure_file = "none" THEN {TRUE}
                            ELSE BOOLEAN :
               /\ exit_code' = IF unlinked THEN 0 ELSE 1
               /\ failure_file' = IF unlinked THEN "none" ELSE failure_file
       ELSE /\ exit_code' = 1
            /\ failure_file' \in {last_failure_reason, failure_file}
    /\ \E remaining \in SUBSET active : MainCleanup(remaining)
    /\ UNCHANGED <<queryVars, contVars, callVars, probeVars>>
    /\ UNCHANGED <<paramVars, uploadVars, last_config_file, current_config,
                   bringups, selected, runs>>

\* the next run of the program: a new process, the marker file and the
\* interfaces left up are what the previous run left
Restart ==
    /\ pc = "exit"
    /\ runs < MaxRuns
    /\ runs' = runs + 1
    /\ pc' = "main"
    /\ current_config' = NoConfig
    /\ exit_code' = -1
    /\ UNCHANGED <<queryVars, contVars, callVars, probeVars>>
    /\ UNCHANGED <<paramVars, uploadVars, last_config_file, active,
                   teardowns, bringups, selected, failure_file>>

(* ---------------------------- upload_video ----------------------------- *)
\* video.save returns, or raises VkApiError, requests.Timeout, another
\* RequestException; the response has no "upload_url" (KeyError); stat()
\* raises OSError
OpenOutcomes == {"ok", "api", "timeout", "request", "no_url", "other"}

OpenException(outcome) ==
    IF outcome = "no_url"
    THEN [cls |-> "other", msg |-> "upload_url"]
    ELSE [cls |-> outcome, msg |-> "session"]

\* a failure to open the session ignored
AfterOpenCarryOn(outcome, att) == IF NeedsProbe(att) THEN "probe" ELSE "plan"

\* where the iteration goes after the calls that open the session
AfterOpen(outcome, att) ==
    IF outcome # "ok" THEN "raised"
    ELSE IF NeedsProbe(att) THEN "probe" ELSE "plan"

\* `for attempt in range(max_retries)` ran out: the code after the loop
LoopExhausted ==
    /\ pc = "open"
    /\ attempt >= max_retries
    /\ last_failure_reason' = "All attempts failed"
    /\ retval' = "False"
    /\ pc' = "done"
    /\ UNCHANGED <<queryVars, contVars, callVars, probeVars>>
    /\ UNCHANGED <<paramVars, attempt, start_byte, chunks_to_upload,
                   max_workers, chunk_state, merged, total_uploaded,
                   consecutive_timeouts, exc, wait_time, wgVars, mainVars>>

\* top of the loop body: video.save, save_response["upload_url"], stat()
OpenSession ==
    /\ pc = "open"
    /\ attempt < max_retries
    /\ \E outcome \in OpenOutcomes :
         /\ pc' = AfterOpen(outcome, attempt)
         /\ IF outcome = "ok"
            THEN /\ upload_url' = attempt + 1
                 /\ start_byte' = 0
                 /\ exc' = exc
            ELSE /\ exc' = OpenException(outcome)
                 /\ UNCHANGED <<upload_url, start_byte>>
    /\ UNCHANGED <<queryVars, contVars, callVars, probes, probe_response>>
    /\ UNCHANGED <<paramVars, attempt, chunks_to_upload, max_workers,
                   chunk_state, merged, total_uploaded, consecutive_timeouts,
                   last_failure_reason, wait_time, retval, wgVars, mainVars>>

\* _check_upload_status(upload_url) sends its GET and gets the outcome
ProbeRequest ==
    /\ pc = "probe"
    /\ probes' = Append(probes, upload_url)
    /\ probe_response' \in ProbeResponses(file_size, chunk_size)
    /\ pc' = "parse"
    /\ UNCHANGED <<queryVars, contVars, callVars, upload_url>>
    /\ UNCHANGED <<paramVars, uploadVars, wgVars, mainVars>>

\* start_byte = self._check_upload_status(upload_url): the headers are
\* parsed, any exception gives 0
ProbeResume ==
    /\ pc = "parse"
    /\ start_byte' = CheckUploadStatus(probe_response)
    /\ pc' = "plan"
    /\ UNCHANGED <<queryVars, contVars, callVars, probeVars>>
    /\ UNCHANGED <<paramVars, attempt, chunks_to_upload, max_workers,
                   chunk_state, merged, total_uploaded, consecutive_timeouts,
                   exc, last_failure_reason, wait_time, retval, wgVars,
                   mainVars>>

\* build the plan, choose max_workers, create the executor (ValueError when
\* max_workers is 0) and submit every chunk
PlanAndSubmit ==
    /\ pc = "plan"
    /\ \E readable \in BOOLEAN :
         IF ~readable
         THEN \* preload mode: open()/read() of the file raised
              /\ ~UseStreaming(file_size)
              /\ pc' = "raised"
              /\ exc' = [cls |-> "other", msg |-> "read"]
              /\ chunks_to_upload' = <<>>
              /\ UNCHANGED <<max_workers, chunk_state, merged,
                             total_uploaded, consecutive_timeouts>>
         ELSE /\ chunks_to_upload' =
                    ChunkPlan(start_byte, file_size, chunk_size)
              /\ max_workers' = MaxWorkers(skip_vpn, file_size,
                                           Len(chunks_to_upload'))
              /\ total_uploaded' = start_byte
              /\ consecutive_timeouts' = 0
              /\ merged' = <<>>
              /\ IF max_workers' <= 0
                 THEN /\ pc' = "raised"
                      /\ exc' = [cls |-> "other", msg |-> "max_workers"]
                      /\ chunk_state' = <<>>
                 ELSE /\ pc' = "transfer"
                      /\ exc' = exc
                      /\ chunk_state' =
                           [i \in 1..Len(chunks_to_upload') |-> "queued"]
    /\ probe_response' = NoResponse
    /\ UNCHANGED <<queryVars, contVars, callVars, upload_url, probes>>
    /\ UNCHANGED <<paramVars, attempt, start_byte, last_failure_reason,
                   wait_time, retval, wgVars, mainVars>>

Running == {i \in DOMAIN chunk_state : chunk_state[i] = "running"}
Queued == {i \in DOMAIN chunk_state : chunk_state[i] = "queued"}

\* a worker thread of the pool takes the oldest queued work item; the
\* executor keeps doing so while the orchestrator waits in its shutdown
StartChunk ==
    /\ pc \in {"transfer", "raised"}
    /\ Queued # {}
    /\ Cardinality(Running) < max_workers
    /\ \E i \in Queued :
         /\ \A j \in Queued : i <= j
         /\ chunk_state' = [chunk_state EXCEPT ![i] = "running"]
    /\ UNCHANGED <<queryVars, contVars, callVars, probeVars>>
    /\ UNCHANGED <<pc, paramVars, attempt, start_byte, chunks_to_upload,
                   max_workers, merged, total_uploaded, consecutive_timeouts,
                   exc, last_failure_reason, wait_time, retval, wgVars,
                   mainVars>>

\* _upload_chunk returns in a worker thread; the payload is the whole
\* range (the file does not change during the call of upload_video)
FinishChunk ==
    /\ pc \in {"transfer", "raised"}
    /\ \E i \in Running :
         \E result \in {UploadChunk(chunks_to_upload[i][2], post) :
                           post \in PostResults} :
           chunk_state' =
             [chunk_state EXCEPT ![i] =
                IF result.success THEN "ok" ELSE "failed"]
    /\ UNCHANGED <<queryVars, contVars, callVars, probeVars>>
    /\ UNCHANGED <<pc, paramVars, attempt, start_byte, chunks_to_upload,
                   max_workers, merged, total_uploaded, consecutive_timeouts,
                   exc, last_failure_reason, wait_time, retval, wgVars,
                   mainVars>>

\* every accepted chunk counted as a full chunk
ChunkBytesFull(i) == chunk_size

\* chunk_bytes of future.result(): the length of the payload of a chunk
\* that succeeded, 0 for one that failed
ChunkBytes(i) ==
    IF chunk_state[i] = "ok" THEN chunks_to_upload[i][2] ELSE 0

\* message of the IncompleteUploadError raised for a failed result, given
\* the counter after its first increment
FailureMessage(count) ==
    IF count >= max_consecutive_timeouts
    THEN "Aborting: consecutive chunk upload failures detected"
    ELSE "Failed to upload chunk"

\* one iteration of `for future in as_completed(future_to_chunk)`; the
\* finished futures are taken in any order (as_completed yields those
\* already finished in no particular order, the others as they finish)
MergeResult ==
    /\ pc = "transfer"
    /\ \E i \in DOMAIN chunk_state \ MergedIdx :
         /\ chunk_state[i] \in {"ok", "failed"}
         /\ merged' = Append(merged,
                             [idx |-> i, success |-> chunk_state[i] = "ok"])
         /\ IF chunk_state[i] = "ok"
            THEN /\ consecutive_timeouts' = 0
                 /\ total_uploaded' = total_uploaded + ChunkBytes(i)
                 /\ UNCHANGED <<pc, exc>>
            ELSE \* `if not success:` raises, `except Exception` counts the
                 \* failure again and raises "Chunk upload failed: <msg>"
                 /\ consecutive_timeouts' = (consecutive_timeouts + 1) + 1
                 /\ exc' = [cls |-> "incomplete",
                            msg |-> FailureMessage(consecutive_timeouts + 1)]
                 /\ pc' = "raised"
                 /\ UNCHANGED total_uploaded
    /\ UNCHANGED <<queryVars, contVars, callVars, probeVars>>
    /\ UNCHANGED <<paramVars, attempt, start_byte, chunks_to_upload,
                   max_workers, chunk_state, last_failure_reason, wait_time,
                   retval, wgVars, mainVars>>

\* the loop over as_completed ended, the executor is shut down: return True
AttemptSucceeds ==
    /\ pc = "transfer"
    /\ MergedIdx = DOMAIN chunk_state
    /\ retval' = "True"
    /\ pc' = "done"
    /\ UNCHANGED <<queryVars, contVars, callVars, probeVars>>
    /\ UNCHANGED <<paramVars, attempt, start_byte, chunks_to_upload,
                   max_workers, chunk_state, merged, total_uploaded,
                   consecutive_timeouts, exc, last_failure_reason, wait_time,
                   wgVars, mainVars>>

\* every IncompleteUploadError taken for the persistent signature
HasAnySignature(msg) == TRUE

\* `"consecutive chunk upload failures" in error_msg`
HasPersistentSignature(msg) ==
    msg = "Aborting: consecutive chunk upload failures detected"

\* the timeout clause with the factor of the IncompleteUploadError clause
BackoffFactorSwapped(cls) ==
    CASE cls = "api" -> 5
      [] cls = "timeout" -> 15
      [] cls = "incomplete" -> 15
      [] cls = "request" -> 5
      [] OTHER -> 5

\* the factor of wait_time in the except clause of each exception class
BackoffFactor(cls) ==
    CASE cls = "api" -> 5
      [] cls = "timeout" -> 10
      [] cls = "incomplete" -> 15
      [] cls = "request" -> 5
      [] OTHER -> 5

\* every clause recording the reason of the catch-all clause
FailureReasonGeneric(e) == "Unexpected error"

\* self.last_failure_reason set by the except clause
FailureReason(e) ==
    CASE e.cls = "api" -> "VK API error"
      [] e.cls = "timeout" -> "Upload timeout"
      [] e.cls = "incomplete" ->
            IF HasPersistentSignature(e.msg)
            THEN "Persistent upload timeouts"
            ELSE "Incomplete upload"
      [] e.cls = "request" -> "Network error"
      [] OTHER -> "Unexpected error"

\* the rotation of the IncompleteUploadError clause is entered
RotatesOn(e) ==
    /\ e.cls = "incomplete"
    /\ HasPersistentSignature(e.msg)
    /\ ~skip_vpn
    /\ attempt < max_retries - 1

\* the except clause that catches the exception, once the `with` block has
\* joined the worker threads: record the reason, rotate on the persistent
\* signature, then sleep and continue, or return False on the last attempt
HandleFailure ==
    /\ pc = "raised"
    /\ AllFinished
    /\ last_failure_reason' = FailureReason(exc)
    /\ UNCHANGED probe_response
    /\ IF RotatesOn(exc) /\ GetNextConfig(configs, last_config_file) # NoConfig
       THEN \E down \in SUBSET active, outcome \in ConnectOutcomes,
               remaining \in SUBSET active, ok \in BOOLEAN :
              /\ ConnectWireguard(down, teardowns + 1,
                                  GetNextConfig(configs, last_config_file),
                                  outcome, remaining, ok)
              /\ selected' = Append(selected,
                     [path |-> GetNextConfig(configs, last_config_file),
                      last |-> last_config_file, ok |-> ok])
       ELSE UNCHANGED wgVars
    /\ IF attempt < max_retries - 1
       THEN \* `continue`: the locals of this iteration are dead, the next
            \* iteration assigns each of them before reading it, and `e`
            \* is unbound when the except clause is left
            /\ wait_time' = BackoffFactor(exc.cls) * (attempt + 1)
            /\ attempt' = attempt + 1
            /\ pc' = "open"
            /\ retval' = retval
            /\ start_byte' = 0
            /\ chunks_to_upload' = <<>>
            /\ max_workers' = 0
            /\ chunk_state' = <<>>
            /\ merged' = <<>>
            /\ total_uploaded' = 0
            /\ consecutive_timeouts' = 0
            /\ exc' = NoExc
            /\ upload_url' = 0
            /\ probes' = <<>>
       ELSE /\ retval' = "False"
            /\ pc' = "done"
            /\ UNCHANGED <<wait_time, attempt, start_byte, chunks_to_upload,
                           max_workers, chunk_state, merged, total_uploaded,
                           consecutive_timeouts, exc, upload_url, probes>>
    /\ UNCHANGED <<queryVars, contVars, callVars>>
    /\ UNCHANGED <<paramVars, mainVars>>

(* --------------------------- specifications ---------------------------- *)
\* one run of main()
Next ==
    \/ MainConnect
    \/ FindVideoNone
    \/ FindVideoFound
    \/ LoopExhausted
    \/ OpenSession
    \/ ProbeRequest
    \/ ProbeResume
    \/ PlanAndSubmit
    \/ StartChunk
    \/ FinishChunk
    \/ MergeResult
    \/ AttemptSucceeds
    \/ HandleFailure
    \/ MainFinish

Spec == Init /\ [][Next]_vars

\* every step of a run is a bounded wait (timeouts on every request and
\* subprocess, finite sleeps), so a run never stops half way
FairSpec == Spec /\ WF_vars(Next)

\* successive runs of main() that find no video: each rotates the path
\* once and exits; the marker file and the interfaces survive the process
InitWG ==
    /\ InitRun
    /\ file_size = 0
    /\ chunk_size = MiB
    /\ max_retries = DefaultMaxRetries
    /\ skip_vpn = FALSE
    /\ configs = AvailableConfigs(PoolSize)
    /\ last_config_file \in {NoConfig, StaleConfig}
                              \cup {configs[i] : i \in DOMAIN configs}

NextWG ==
    \/ MainConnect
    \/ FindVideoNone
    \/ Restart

SpecWG == InitWG /\ [][NextWG]_vars

\* the same runs over the directory of ClashPaths
InitClash ==
    /\ InitRun
    /\ file_size = 0
    /\ chunk_size = MiB
    /\ max_retries = DefaultMaxRetries
    /\ skip_vpn = FALSE
    /\ configs = ClashPaths
    /\ last_config_file \in {NoConfig, StaleConfig}
                              \cup {configs[i] : i \in DOMAIN configs}

SpecClash == InitClash /\ [][NextWG]_vars

(* ------------------- one call of _upload_chunk ------------------------- *)
\* the calls explored: a range of a plan, the payload the whole range, a
\* shorter one or none at all (the file ends before the range does), or
\* the read of the range raising OSError
ChunkCalls ==
    {c \in [start : {0, MiB}, size : {1, MiB}, payload : {0, 1, MiB},
            read : {"ok", "error"}] : c.payload <= c.size}

InitChunk ==
    /\ pc = "chunk_entry"
    /\ InitUploader
    /\ InitQuery
    /\ InitStandalone
    /\ file_size = 2 * MiB
    /\ chunk_size = MiB
    /\ max_retries = DefaultMaxRetries
    /\ skip_vpn = FALSE
    /\ configs = AvailableConfigs(0)
    /\ last_config_file = NoConfig
    /\ chunk_call \in ChunkCalls
    /\ posts = <<>>
    /\ chunk_result = NoResult

\* _upload_chunk up to the POST: the payload is taken or read; an
\* exception of the read and an empty payload end the call
UploadChunkEntry ==
    /\ pc = "chunk_entry"
    /\ IF chunk_call.read = "error"
       THEN /\ chunk_result' = [success |-> FALSE, bytes |-> 0]
            /\ pc' = "chunk_return"
       ELSE IF chunk_call.payload = 0
            THEN /\ chunk_result' = UploadChunk(0, Raised("none"))
                 /\ pc' = "chunk_return"
            ELSE /\ chunk_result' = chunk_result
                 /\ pc' = "chunk_post"
    /\ UNCHANGED <<queryVars, contVars, probeVars, chunk_call, posts>>
    /\ UNCHANGED <<paramVars, uploadVars, wgVars, mainVars>>

\* self.upload_session.post: the adapter puts the request on the wire,
\* sends it again after a reply it retries, and otherwise returns the
\* response or raises; _upload_chunk turns either into its return value
SessionPost ==
    /\ pc = "chunk_post"
    /\ \E reply \in WireReplies :
         /\ posts' = Append(posts, reply)
         /\ IF Resend(posts')
            THEN UNCHANGED <<pc, chunk_result>>
            ELSE /\ chunk_result' =
                      UploadChunk(chunk_call.payload, PostResult(posts'))
                 /\ pc' = "chunk_return"
    /\ UNCHANGED <<queryVars, contVars, probeVars, chunk_call>>
    /\ UNCHANGED <<paramVars, uploadVars, wgVars, mainVars>>

NextChunk ==
    \/ UploadChunkEntry
    \/ SessionPost

SpecChunk == InitChunk /\ [][NextChunk]_vars

(* ---------------- uploader-standalone.py: continuous mode -------------- *)
\* num_workers = min(self.max_concurrent, len(self.wg_manager.configs) or 1)
NumWorkers(max_conc, nconfigs) ==
    Min(max_conc, IF nconfigs = 0 THEN 1 ELSE nconfigs)

\* every worker given the first config
GetConfigForWorkerFirst(cfgs, worker_id) ==
    IF Len(cfgs) = 0 THEN NoConfig ELSE cfgs[1]

\* no worker given a config
GetConfigForWorkerNone(cfgs, worker_id) == NoConfig

\* WireGuardManager.get_config_for_worker, on the 1-based sequence
GetConfigForWorker(cfgs, worker_id) ==
    IF Len(cfgs) = 0 THEN NoConfig
    ELSE cfgs[(worker_id % Len(cfgs)) + 1]

RECURSIVE SortedSeq(_)
\* sorted(videos)
SortedSeq(S) ==
    IF S = {} THEN <<>>
    ELSE LET m == CHOOSE x \in S : \A y \in S : x <= y
         IN <<m>> \o SortedSeq(S \ {m})

\* a scan that does not look for the marker
FindVideosIgnoringMarker == SortedSeq(videos)

\* StandaloneUploader._find_videos
FindVideos == SortedSeq(videos \ uploaded)

InitCont ==
    /\ pc = "main"
    /\ InitUploader
    /\ InitQuery
    /\ InitCall
    /\ InitSupervisor
    /\ file_size = 0
    /\ chunk_size = MiB
    /\ max_retries = DefaultMaxRetries
    /\ skip_vpn = FALSE
    /\ last_config_file = NoConfig
    /\ configs \in {AvailableConfigs(n) : n \in 0..MaxConcurrent}
    /\ max_concurrent \in 1..MaxConcurrent
    /\ videos \in {1..n : n \in 0..MaxVideos}

\* run() up to the polling loop: _start_workers
StartWorkers ==
    /\ sup_pc = "init"
    /\ workers' =
         [w \in 0..(NumWorkers(max_concurrent, Len(configs)) - 1) |->
            [pc |-> "get", running |-> TRUE, video_file |-> 0,
             config |-> NoConfig]]
    /\ sup_pc' = "poll"
    /\ UNCHANGED <<singleFileVars, completed, crashes>>
    /\ UNCHANGED <<max_concurrent, videos, uploaded, work_queue,
                   unfinished_tasks, active_connections, interfaces>>

\* one round of the polling loop that finds videos: put each on the queue
Poll ==
    /\ sup_pc = "poll"
    /\ FindVideos # <<>>
    /\ work_queue' = work_queue \o FindVideos
    /\ unfinished_tasks' = unfinished_tasks + Len(FindVideos)
    /\ sup_pc' = "join"
    /\ UNCHANGED <<singleFileVars, completed, crashes>>
    /\ UNCHANGED <<max_concurrent, videos, uploaded, workers,
                   active_connections, interfaces>>

\* work_queue.join() returns, then the sleep
JoinReturns ==
    /\ sup_pc = "join"
    /\ unfinished_tasks = 0
    /\ sup_pc' = "poll"
    /\ UNCHANGED <<singleFileVars, completed, crashes>>
    /\ UNCHANGED <<max_concurrent, videos, uploaded, workers, work_queue,
                   unfinished_tasks, active_connections, interfaces>>

\* KeyboardInterrupt in the loop: _stop_workers puts one None per worker
Interrupt ==
    /\ sup_pc \in {"poll", "join"}
    /\ work_queue' =
         work_queue \o [k \in 1..Cardinality(DOMAIN workers) |-> PoisonPill]
    /\ sup_pc' = "stopping"
    /\ UNCHANGED <<singleFileVars, completed, crashes>>
    /\ UNCHANGED <<max_concurrent, videos, uploaded, workers,
                   unfinished_tasks, active_connections, interfaces>>

\* worker.stop() for the next worker of the list: running = False, then a
\* join that returns after 5 seconds at the latest
StopWorker ==
    /\ sup_pc = "stopping"
    /\ \E w \in DOMAIN workers :
         /\ workers[w].running
         /\ \A v \in DOMAIN workers : workers[v].running => w <= v
         /\ workers' = [workers EXCEPT ![w].running = FALSE]
    /\ UNCHANGED <<singleFileVars, completed, crashes>>
    /\ UNCHANGED <<max_concurrent, videos, uploaded, sup_pc, work_queue,
                   unfinished_tasks, active_connections, interfaces>>

\* run() returns and the process exits; the daemon threads end with it
Shutdown ==
    /\ sup_pc = "stopping"
    /\ \A w \in DOMAIN workers : ~workers[w].running
    /\ sup_pc' = "stopped"
    /\ UNCHANGED <<singleFileVars, completed, crashes>>
    /\ UNCHANGED <<max_concurrent, videos, uploaded, workers, work_queue,
                   unfinished_tasks, active_connections, interfaces>>

\* VideoWorker._run: work_queue.get returns an item
WorkerGet(w) ==
    /\ sup_pc # "stopped"
    /\ workers[w].pc = "get"
    /\ work_queue # <<>>
    /\ work_queue' = Tail(work_queue)
    /\ workers' =
         [workers EXCEPT ![w] =
            IF Head(work_queue) = PoisonPill
            THEN [@ EXCEPT !.pc = "stopped"]
            ELSE [@ EXCEPT !.pc = "connect",
                           !.video_file = Head(work_queue)]]
    /\ UNCHANGED <<singleFileVars, completed, crashes>>
    /\ UNCHANGED <<max_concurrent, videos, uploaded, sup_pc,
                   unfinished_tasks, active_connections, interfaces>>

\* VideoWorker._run: `while self.running` is false
WorkerExit(w) ==
    /\ sup_pc # "stopped"
    /\ workers[w].pc = "get"
    /\ ~workers[w].running
    /\ workers' = [workers EXCEPT ![w].pc = "stopped"]
    /\ UNCHANGED <<singleFileVars, completed, crashes>>
    /\ UNCHANGED <<max_concurrent, videos, uploaded, sup_pc, work_queue,
                   unfinished_tasks, active_connections, interfaces>>

ConnectResults == {"up_ok", "up_fail", "up_timeout"}

\* _process_video up to the upload: get_config_for_worker, then
\* WireGuardManager.connect: `wg-quick down wg<w>` (its outcome ignored),
\* then `wg-quick up`, which fails when wg<w> is still up; after a
\* timeout the interface may or may not have come up
WorkerConnect(w) ==
    /\ sup_pc # "stopped"
    /\ workers[w].pc = "connect"
    /\ LET config == GetConfigForWorker(configs, w) IN
         IF config = NoConfig
         THEN /\ workers' = [workers EXCEPT ![w].pc = "upload",
                                            ![w].config = config]
              /\ UNCHANGED <<active_connections, interfaces>>
         ELSE \E after_down \in {interfaces, DictDel(interfaces, w)},
                 result \in ConnectResults, came_up \in BOOLEAN :
                /\ result = "up_ok" => w \notin DOMAIN after_down
                /\ came_up =
                     (result = "up_ok"
                        \/ (result = "up_timeout"
                              /\ w \notin DOMAIN after_down))
                /\ interfaces' =
                     IF came_up THEN DictSet(after_down, w, config)
                     ELSE after_down
                /\ active_connections' =
                     IF result = "up_ok"
                     THEN DictSet(active_connections, w, config)
                     ELSE active_connections
                /\ workers' =
                     [workers EXCEPT
                        ![w].pc = IF result = "up_ok" THEN "upload"
                                  ELSE "disconnect",
                        ![w].config = config]
    /\ UNCHANGED <<singleFileVars, completed, crashes>>
    /\ UNCHANGED <<max_concurrent, videos, uploaded, sup_pc, work_queue,
                   unfinished_tasks>>

UploadResults == {"success", "failure", "raised"}

\* the worker goes on without task_done
TaskDoneUnacknowledged(w) ==
    /\ UNCHANGED unfinished_tasks
    /\ workers' = [workers EXCEPT ![w].pc = "get", ![w].video_file = 0,
                                  ![w].config = NoConfig]

\* task_done called twice for one item
TaskDoneTwice(w) ==
    /\ unfinished_tasks' = unfinished_tasks - 2
    /\ workers' = [workers EXCEPT ![w].pc = "get", ![w].video_file = 0,
                                  ![w].config = NoConfig]

\* the worker is back in _run: work_queue.task_done(), the next get()
TaskDone(w) ==
    /\ unfinished_tasks' = unfinished_tasks - 1
    /\ workers' = [workers EXCEPT ![w].pc = "get", ![w].video_file = 0,
                                  ![w].config = NoConfig]

\* the `finally:` skipped when the upload pass raised
AfterTaskUnlessRaised(config, result) ==
    IF config # NoConfig /\ result # "raised" THEN "disconnect" ELSE "get"

\* where _process_video goes when its try block is left with `result`:
\* `finally: if config: self.wg_manager.disconnect(...)`, else it returns
AfterTask(config, result) ==
    IF config # NoConfig THEN "disconnect" ELSE "get"

\* the try block of _process_video is left: the disconnect of the
\* `finally:` comes next, or with no config _process_video returns
LeaveTry(w, result) ==
    IF AfterTask(workers[w].config, result) = "get"
    THEN TaskDone(w)
    ELSE /\ workers' = [workers EXCEPT ![w].pc = "disconnect"]
         /\ UNCHANGED unfinished_tasks

\* the marker written whatever upload_video returned
MarksAlways(result) == TRUE

\* `if success:` on the value upload_video returned
Marks(result) == result = "success"

\* _process_video from the creation of the uploader to the return of
\* upload_video: it returns True, it returns False, or one of the calls
\* raises and `except Exception` logs it
WorkerUpload(w) ==
    /\ sup_pc # "stopped"
    /\ workers[w].pc = "upload"
    /\ \E result \in UploadResults :
         /\ completed' = IF result = "success"
                         THEN completed \cup {workers[w].video_file}
                         ELSE completed
         /\ IF Marks(result)
            THEN /\ workers' = [workers EXCEPT ![w].pc = "mark"]
                 /\ UNCHANGED unfinished_tasks
            ELSE LeaveTry(w, result)
    /\ UNCHANGED <<singleFileVars, crashes>>
    /\ UNCHANGED <<max_concurrent, videos, uploaded, sup_pc, work_queue,
                   active_connections, interfaces>>

\* `if success: self.uploader.mark_file_uploaded(video_file)`: the marker
\* is written next to the file
MarkFileUploaded(marked, video_file) == marked \cup {video_file}

WorkerMark(w) ==
    /\ sup_pc # "stopped"
    /\ workers[w].pc = "mark"
    /\ uploaded' = MarkFileUploaded(uploaded, workers[w].video_file)
    /\ LeaveTry(w, "success")
    /\ UNCHANGED <<singleFileVars, completed, crashes>>
    /\ UNCHANGED <<max_concurrent, videos, sup_pc, work_queue,
                   active_connections, interfaces>>

DisconnectResults == {"down_ok", "down_fail", "down_timeout"}

\* the `finally:` of _process_video: WireGuardManager.disconnect.  The
\* return code of `wg-quick down` is not read; an exception (the timeout)
\* skips the removal from active_connections.  _process_video returns
WorkerDisconnect(w) ==
    /\ sup_pc # "stopped"
    /\ workers[w].pc = "disconnect"
    /\ \E result \in DisconnectResults :
         /\ interfaces' = IF result = "down_ok"
                          THEN DictDel(interfaces, w) ELSE interfaces
         /\ active_connections' =
              IF result = "down_timeout" THEN active_connections
              ELSE DictDel(active_connections, w)
    /\ TaskDone(w)
    /\ UNCHANGED <<singleFileVars, completed, crashes>>
    /\ UNCHANGED <<max_concurrent, videos, uploaded, sup_pc, work_queue>>

NextCont ==
    \/ StartWorkers
    \/ Poll
    \/ JoinReturns
    \/ Interrupt
    \/ StopWorker
    \/ Shutdown
    \/ \E w \in DOMAIN workers : WorkerGet(w)
    \/ \E w \in DOMAIN workers : WorkerExit(w)
    \/ \E w \in DOMAIN workers : WorkerConnect(w)
    \/ \E w \in DOMAIN workers : WorkerUpload(w)
    \/ \E w \in DOMAIN workers : WorkerMark(w)
    \/ \E w \in DOMAIN workers : WorkerDisconnect(w)

SpecCont == InitCont /\ [][NextCont]_vars

\* the process is killed at any point and started again: main() builds a
\* new StandaloneUploader, so the queue, the workers and
\* active_connections start empty; the marker files and the interfaces
\* that were up are what the old process left
CrashRestart ==
    /\ sup_pc # "init"
    /\ crashes < MaxCrashes
    /\ crashes' = crashes + 1
    /\ sup_pc' = "init"
    /\ workers' = NoWorkers
    /\ work_queue' = <<>>
    /\ unfinished_tasks' = 0
    /\ active_connections' = NoWorkers
    /\ UNCHANGED <<singleFileVars, max_concurrent, videos, uploaded,
                   interfaces, completed>>

NextCrash ==
    \/ NextCont
    \/ CrashRestart

\* the steps of the worker threads, and the return of work_queue.join()
WorkerSteps ==
    \/ \E w \in DOMAIN workers : WorkerGet(w)
    \/ \E w \in DOMAIN workers : WorkerExit(w)
    \/ \E w \in DOMAIN workers : WorkerConnect(w)
    \/ \E w \in DOMAIN workers : WorkerUpload(w)
    \/ \E w \in DOMAIN workers : WorkerMark(w)
    \/ \E w \in DOMAIN workers : WorkerDisconnect(w)
    \/ JoinReturns

\* the threads are scheduled and every call they make is a bounded wait
\* (timeouts of the subprocesses and requests, an upload_video that
\* returns); the interrupt is not owed to anybody
FairSpecCont == SpecCont /\ WF_vars(WorkerSteps)

\* continuous mode with kills and restarts of the process
SpecCrash == InitCont /\ [][NextCrash]_vars

(* ------------- _check_upload_status called again and again ------------- *)
\* the headers the remote service puts on its answers: none, Range,
\* X-Last-Known-Byte, both, a Range without a last byte, an
\* X-Last-Known-Byte that is no integer
HeaderStyles == {"none", "range", "xlkb", "both", "unusable", "garbage"}

\* the response to the GET when the service answers: the headers name the
\* bytes it has stored (Range is inclusive: bytes=0-<stored - 1>)
RemoteAnswer(r) ==
    [status |-> "ok",
     range |-> IF r.header \in {"range", "both"} /\ r.stored > 0
               THEN Header("value", r.stored - 1)
               ELSE IF r.header = "unusable" THEN Header("unusable", 0)
               ELSE Header("absent", 0),
     xlkb |-> IF r.header \in {"xlkb", "both"}
              THEN Header("value", r.stored)
              ELSE IF r.header = "garbage" THEN Header("garbage", 0)
              ELSE Header("absent", 0)]

\* self.upload_session.get(upload_url, timeout=30) and raise_for_status()
SessionGet(r, answered) == IF answered THEN RemoteAnswer(r) ELSE ErrorResponse

\* an open session that holds some whole chunks of the file
InitSession ==
    /\ pc = "query"
    /\ InitUploader
    /\ InitCall
    /\ InitStandalone
    /\ file_size = MaxChunks * MiB
    /\ chunk_size = MiB
    /\ max_retries = DefaultMaxRetries
    /\ skip_vpn = FALSE
    /\ configs = AvailableConfigs(0)
    /\ last_config_file = NoConfig
    /\ remote \in [stored : {k * MiB : k \in 0..(MaxChunks - 1)},
                   header : HeaderStyles]
    /\ offsets = <<>>

\* one call of _check_upload_status(upload_url): the GET, the parse, the
\* return value; nothing of the uploader is assigned
Query ==
    /\ pc = "query"
    /\ Len(offsets) < MaxQueries
    /\ \E answered \in BOOLEAN :
         offsets' = Append(offsets,
                           [answered |-> answered,
                            offset |-> CheckUploadStatus(
                                         SessionGet(remote, answered))])
    /\ UNCHANGED <<pc, paramVars, uploadVars, wgVars, mainVars, probeVars,
                   callVars, contVars, remote>>

\* a chunk upload between two queries: the service stores one more chunk;
\* the queries that follow are a new run of consecutive queries
StoreChunk ==
    /\ pc = "query"
    /\ remote.stored < file_size
    /\ remote' = [remote EXCEPT !.stored = @ + chunk_size]
    /\ offsets' = <<>>
    /\ UNCHANGED <<pc, paramVars, uploadVars, wgVars, mainVars, probeVars,
                   callVars, contVars>>

NextProbe ==
    \/ Query
    \/ StoreChunk

SpecProbe == InitSession /\ [][NextProbe]_vars

(* ------------------------------ properties ----------------------------- *)
\* the plan of the current attempt has been built
PlanBuilt ==
    \/ pc = "transfer"
    \/ exc.cls = "incomplete"
    \/ exc.msg = "max_workers"
    \/ retval = "True"

\* plan is an ascending sequence of ranges that tiles [lo, hi)
TilesRange(plan, lo, hi, csize) ==
    /\ \A k \in DOMAIN plan : plan[k][2] >= 1 /\ plan[k][2] <= csize
    /\ \A k \in 1..(Len(plan) - 1) : plan[k + 1][1] = plan[k][1] + plan[k][2]
    /\ IF Len(plan) = 0
       THEN lo = hi
       ELSE /\ plan[1][1] = lo
            /\ plan[Len(plan)][1] + plan[Len(plan)][2] = hi

\* C1: for 0 <= start_byte <= file_size and chunk_size > 0 the plan of an
\* attempt is an ascending sequence of (offset, length) ranges that tiles
\* [start_byte, file_size) exactly, every length between 1 and chunk_size;
\* 10,000,000 bytes in chunks of 5,000,000 from 0 give two full ranges.
C1_PlanTilesRange ==
    /\ (PlanBuilt /\ start_byte <= file_size)
         => TilesRange(chunks_to_upload, start_byte, file_size, chunk_size)
    /\ ChunkPlan(0, 10000000, 5000000)
         = <<<<0, 5000000>>, <<5000000, 5000000>>>>

\* a resumed attempt whose plan has a full range and a shorter last range
C1_Witness ==
    /\ pc = "transfer"
    /\ start_byte > 0
    /\ Len(chunks_to_upload) = 2
    /\ chunks_to_upload[1][2] = chunk_size
    /\ chunks_to_upload[2][2] < chunk_size

RECURSIVE TrailingFailures(_)
\* length of the run of failed results at the end of a sequence of results
TrailingFailures(results) ==
    IF results = <<>> \/ results[Len(results)].success
    THEN 0
    ELSE 1 + TrailingFailures(SubSeq(results, 1, Len(results) - 1))

AllChunksFailed ==
    \A i \in DOMAIN chunk_state : chunk_state[i] = "failed"

\* C2: an attempt in which 3 chunk results in a row are failures is aborted
\* with the persistent-failure signal, and the signal is never raised when
\* fewer than 3 consecutive failures were merged (2 failures, 1 success).
C2_ThreeFailuresRaisePersistent ==
    /\ (pc = "raised" /\ exc.cls = "incomplete" /\ AllChunksFailed
          /\ Len(chunk_state) >= max_consecutive_timeouts)
         => exc.msg = "Aborting: consecutive chunk upload failures detected"
    /\ exc.msg = "Aborting: consecutive chunk upload failures detected"
         => TrailingFailures(merged) >= max_consecutive_timeouts

\* C3: a failed chunk result is counted and does not abort the attempt by
\* itself: the attempt is aborted by chunk failures only once 3 consecutive
\* failures have been merged.
C3_SingleFailureDoesNotAbort ==
    exc.cls = "incomplete"
      => TrailingFailures(merged) >= max_consecutive_timeouts

\* C4: after each merged result the consecutive-failure counter is the
\* length of the trailing run of failures merged so far.
C4_CounterIsTrailingRun ==
    consecutive_timeouts = TrailingFailures(merged)

\* C5: an attempt whose plan is empty succeeds at once: no exception, no
\* failed return, no chunk transferred and no byte added to the total.
C5_EmptyPlanSucceeds ==
    (PlanBuilt /\ chunks_to_upload = <<>>)
      => /\ exc = NoExc
         /\ retval # "False"
         /\ chunk_state = <<>>
         /\ total_uploaded = start_byte

WgOperation ==
    \/ teardowns' # teardowns
    \/ bringups' # bringups
    \/ active' # active
    \/ current_config' # current_config
    \/ last_config_file' # last_config_file

\* C6: the retry loop tears a path down or brings one up only when the
\* attempt ended with the persistent-failure signature; after any other
\* failure the next attempt runs on the same path.
C6_RotationOnlyOnPersistent ==
    [][(pc = "raised" /\ WgOperation)
         => (exc.cls = "incomplete" /\ exc.msg =
               "Aborting: consecutive chunk upload failures detected")]_vars

\* a retry after an isolated chunk failure, rotation enabled and a pool of
\* paths at hand: the only bring-up so far is the one main() made
C6_Witness ==
    /\ pc = "open"
    /\ attempt = 1
    /\ last_failure_reason = "Incomplete upload"
    /\ ~skip_vpn
    /\ Len(configs) > 0
    /\ bringups = 1
    /\ teardowns <= 1

\* C7: when every chunk of attempt 1 failed, 3 or more of them, rotation is
\* enabled and the pool is not empty, the handler sees the persistent
\* signal and tears down and brings up a path before attempt 2 starts.
C7_ThreeFailuresThenRotate ==
    [][(/\ pc = "raised" /\ pc' = "open"
        /\ attempt = 0
        /\ exc.cls = "incomplete"
        /\ AllChunksFailed
        /\ Len(chunk_state) >= max_consecutive_timeouts
        /\ ~skip_vpn
        /\ Len(configs) > 0)
         => (/\ exc.msg =
                  "Aborting: consecutive chunk upload failures detected"
             /\ teardowns' > teardowns
             /\ bringups' > bringups
             /\ attempt' = 1)]_vars

\* position of a path in the pool, 0 when it is not in it
PoolPosition(p) ==
    IF \E i \in DOMAIN configs : configs[i] = p
    THEN CHOOSE i \in DOMAIN configs : configs[i] = p
    ELSE 0

\* each rotation selected the path after the marker it read, wrapping at
\* the end of the pool, the first path when the marker names none of them
SelectsAfterRecorded ==
    \A k \in DOMAIN selected :
       LET i == PoolPosition(selected[k].last) IN
         selected[k].path =
           configs[IF i = 0 \/ i = Len(configs) THEN 1 ELSE i + 1]

\* no path occurs twice among up to Len(configs) consecutive entries
NoRepeatWithinPool(seq) ==
    \A j, k \in DOMAIN seq :
       (j < k /\ k - j < Len(configs)) => seq[j].path # seq[k].path

RECURSIVE SuccessfulOnly(_)
SuccessfulOnly(seq) ==
    IF seq = <<>> THEN <<>>
    ELSE IF seq[1].ok THEN <<seq[1]>> \o SuccessfulOnly(Tail(seq))
    ELSE SuccessfulOnly(Tail(seq))

\* C8 as stated: whether the bring-ups succeed or fail, successive
\* rotations select the path after the recorded one and select all N paths
\* before any path is selected a second time.
C8_AllPathsBeforeRepeat ==
    /\ SelectsAfterRecorded
    /\ NoRepeatWithinPool(selected)

\* C8 amended: every rotation selects the path after the recorded one; the
\* rotations whose bring-up succeeded select all N paths before any of them
\* repeats; a rotation whose bring-up failed is not recorded and the next
\* rotation selects the same path again.
C8_RoundRobinOverRecorded ==
    /\ SelectsAfterRecorded
    /\ NoRepeatWithinPool(SuccessfulOnly(selected))
    /\ \A k \in 1..(Len(selected) - 1) :
          ~selected[k].ok => selected[k + 1].path = selected[k].path

\* the pool has been gone round once, with a failed bring-up on the way,
\* and the first path is the selection again
C8_Witness ==
    /\ Len(SuccessfulOnly(selected)) = Len(configs) + 1
    /\ Len(selected) > Len(configs) + 1
    /\ selected[Len(selected)].ok
    /\ selected[Len(selected)].path = SuccessfulOnly(selected)[1].path

\* C9: upload_video makes at most max_retries attempts, returns True at the
\* first attempt that succeeds and False once attempt number max_retries
\* has failed, the recorded reason being that of this last failure; no
\* exception leaves it, and every call returns.
C9_BoundedRetriesAndReturn ==
    /\ [](pc \in {"probe", "parse", "plan", "transfer", "raised"}
            => attempt + 1 <= max_retries)
    /\ [](retval = "True" => pc \in {"done", "exit"})
    /\ []((pc = "done" /\ retval = "False" /\ max_retries > 0)
            => /\ attempt + 1 = max_retries
               /\ exc.cls \in {"api", "timeout", "incomplete", "request",
                               "other"}
               /\ last_failure_reason =
                    CASE exc.cls = "api" -> "VK API error"
                      [] exc.cls = "timeout" -> "Upload timeout"
                      [] exc.cls = "incomplete" ->
                           IF exc.msg =
                 "Aborting: consecutive chunk upload failures detected"
                           THEN "Persistent upload timeouts"
                           ELSE "Incomplete upload"
                      [] exc.cls = "request" -> "Network error"
                      [] OTHER -> "Unexpected error")
    /\ [](pc = "done" => retval \in {"True", "False"})
    /\ [](pc \in {"open", "probe", "parse", "plan", "transfer", "raised"}
            => <>(pc = "done"))

\* the third of three attempts failed and upload_video returned False
C9_Witness ==
    /\ pc = "done"
    /\ retval = "False"
    /\ max_retries = DefaultMaxRetries
    /\ attempt = DefaultMaxRetries - 1
    /\ last_failure_reason = "Upload timeout"

\* C10: the wait before the retry after failed attempt n is 5n seconds for
\* an API error, 10n for a timeout, 15n for an incomplete transfer
\* (persistent or not) and 5n for any other error.
C10_BackoffByClass ==
    [][(pc = "raised" /\ pc' = "open")
         => /\ attempt' = attempt + 1
            /\ wait_time' =
                 attempt' * (CASE exc.cls = "api" -> 5
                               [] exc.cls = "timeout" -> 10
                               [] exc.cls = "incomplete" -> 15
                               [] OTHER -> 5)]_vars

\* the second attempt timed out and the loop waited 20 seconds
C10_Witness ==
    /\ pc = "open"
    /\ attempt = 2
    /\ last_failure_reason = "Upload timeout"
    /\ wait_time = 20

\* C11: the resume probe is issued only on retry attempts: attempt 0 issues
\* no probe and plans from offset 0; every later attempt has issued exactly
\* one probe, to the URL that attempt's video.save returned, by the time
\* its plan is built.
C11_ProbeOnlyOnRetries ==
    /\ attempt = 0 => (probes = <<>> /\ pc \notin {"probe", "parse"})
    /\ (pc \in {"plan", "transfer"} \/ PlanBuilt)
         => IF attempt = 0
            THEN probes = <<>> /\ start_byte = 0
            ELSE probes = <<upload_url>> /\ upload_url = attempt + 1
    /\ Len(probes) <= 1

\* the third attempt probed its own session once and resumes from the
\* offset the probe gave
C11_Witness ==
    /\ pc = "transfer"
    /\ attempt = 2
    /\ probes = <<3>>
    /\ start_byte > 0

\* the probe raised, or its response has neither header
ProbeGaveNothing ==
    \/ probe_response.status = "error"
    \/ /\ probe_response.status = "ok"
       /\ probe_response.range.k = "absent"
       /\ probe_response.xlkb.k = "absent"

\* C12: when the probe errors or its response carries neither header, the
\* offset is 0 and the attempt goes on to a plan that tiles [0, file_size);
\* the probe raises nothing into the attempt and the attempt number stays.
C12_ProbeFailureDefaultsToZero ==
    /\ []((pc = "plan" /\ ProbeGaveNothing)
            => (start_byte = 0 /\ exc = NoExc /\ retval = "none"))
    /\ [][(pc \in {"probe", "parse"})
            => (attempt' = attempt /\ exc' = exc
                  /\ pc' \in {"parse", "plan"})]_vars
    /\ [][(pc = "plan" /\ ProbeGaveNothing /\ pc' = "transfer")
            => (/\ TilesRange(chunks_to_upload', 0, file_size, chunk_size)
                /\ total_uploaded' = 0
                /\ attempt' = attempt)]_vars

\* the probe of the second attempt failed and the attempt is about to plan
\* the whole file
C12_Witness ==
    /\ pc = "plan"
    /\ attempt = 1
    /\ probe_response.status = "error"
    /\ start_byte = 0
    /\ file_size > chunk_size

RECURSIVE AcceptedBytes(_)
\* sum of the lengths of the ranges whose result was merged as a success
AcceptedBytes(results) ==
    IF results = <<>> THEN 0
    ELSE (IF results[1].success
          THEN chunks_to_upload[results[1].idx][2] ELSE 0)
           + AcceptedBytes(Tail(results))

\* C13: in whatever order the chunks complete, the total held during the
\* merge and when the attempt succeeds is the resume offset plus the bytes
\* of the accepted chunks, and equals file_size at success for a plan that
\* tiles [start_byte, file_size).
C13_TotalIsOffsetPlusAccepted ==
    /\ (pc = "transfer" \/ retval = "True")
         => total_uploaded = start_byte + AcceptedBytes(merged)
    /\ (retval = "True"
          /\ TilesRange(chunks_to_upload, start_byte, file_size, chunk_size))
         => total_uploaded = file_size

\* a resumed attempt succeeded with its last chunk merged before the
\* chunk in front of it
C13_Witness ==
    /\ retval = "True"
    /\ start_byte > 0
    /\ Len(merged) = 2
    /\ merged[1].idx > merged[2].idx

\* C14: after an attempt is aborted no chunk that had not started is
\* started; the chunks in flight finish, and their results change neither
\* the total nor the failure counter nor the outcome of the attempt.
C14_NoStartAfterAbort ==
    [][(pc = "raised" /\ pc' = "raised")
         => (/\ \A i \in DOMAIN chunk_state :
                   chunk_state[i] = "queued" => chunk_state'[i] = "queued"
             /\ total_uploaded' = total_uploaded
             /\ consecutive_timeouts' = consecutive_timeouts
             /\ exc' = exc
             /\ retval' = retval)]_vars

C16_ChunkResult ==
    pc = "chunk_return" =>
      /\ chunk_result.bytes >= 0
      /\ IF chunk_call.read = "error"
         THEN chunk_result = [success |-> FALSE, bytes |-> 0]
         ELSE IF chunk_call.payload = 0
         THEN chunk_result = [success |-> TRUE, bytes |-> 0] /\ posts = <<>>
         ELSE /\ posts # <<>>
              /\ chunk_result =
                   IF /\ PostResult(posts).kind = "response"
                      /\ PostResult(posts).status \in {200, 201}
                   THEN [success |-> TRUE, bytes |-> chunk_call.payload]
                   ELSE [success |-> FALSE, bytes |-> 0]

\* a chunk of 1 MiB answered 201 at the first request
C16_Witness ==
    /\ pc = "chunk_return"
    /\ chunk_call.payload = MiB
    /\ posts = <<Reply("status", 201)>>
    /\ chunk_result = [success |-> TRUE, bytes |-> MiB]

\* C17: for one chunk of one attempt at most one upload request reaches
\* the remote service, and a request that failed makes the chunk failed.
C17_NoInternalRetry ==
    /\ Cardinality(ReachedRemote(posts)) <= 1
    /\ (pc = "chunk_return"
          /\ \E k \in DOMAIN posts :
                ~(posts[k].kind = "status" /\ posts[k].status \in {200, 201}))
         => ~chunk_result.success

\* the attempt failed while opening the session
SessionFailed == exc.msg \in {"session", "upload_url"}

\* C18: when video.save raises or its response has no upload_url, the
\* attempt ends at once, with no probe and no chunk; the retry loop then
\* counts it as a failed attempt: it waits and retries, or returns False
\* when it was attempt number max_retries.
C18_SessionFailureEndsAttempt ==
    /\ []((pc = "raised" /\ SessionFailed)
            => (probes = <<>> /\ chunk_state = <<>> /\ merged = <<>>))
    /\ [][(pc = "open" /\ exc' # exc)
            => (pc' = "raised" /\ SessionFailed')]_vars
    /\ [][(pc = "raised" /\ SessionFailed)
            => IF attempt + 1 < max_retries
               THEN /\ pc' = "open"
                    /\ attempt' = attempt + 1
                    /\ wait_time' =
                         attempt' * (IF exc.cls = "timeout" THEN 10 ELSE 5)
               ELSE /\ pc' = "done"
                    /\ retval' = "False"]_vars

\* the third of three attempts got a response without upload_url and
\* upload_video returned False
C18_Witness ==
    /\ pc = "done"
    /\ retval = "False"
    /\ attempt = 2
    /\ exc = [cls |-> "other", msg |-> "upload_url"]
    /\ chunk_state = <<>>

\* the configs worker w holds or uses
HeldBy(w) ==
    (IF workers[w].pc \in {"upload", "mark", "disconnect"}
     THEN {workers[w].config} ELSE {})
      \cup (IF w \in DOMAIN active_connections
            THEN {active_connections[w]} ELSE {})
      \cup (IF w \in DOMAIN interfaces THEN {interfaces[w]} ELSE {})

Processing ==
    {w \in DOMAIN workers :
        workers[w].pc \in {"connect", "upload", "mark", "disconnect"}}

\* C20: the interfaces that are up are never more than the workers that
\* are processing a task, also when a tear-down fails or times out.
C20_UpPathsWithinActiveWorkers ==
    Cardinality(DOMAIN interfaces) <= Cardinality(Processing)

\* C21: the orchestrator holds at most one active path at any time, and a
\* bring-up of a path that is not yet up comes after a tear-down of what
\* was up before.
C21_AtMostOneActivePath ==
    /\ [](Cardinality(active) <= 1)
    /\ [][(active' \ active # {}) => teardowns' > teardowns]_vars

\* C22: a video whose upload completed is never put on the queue again,
\* also when the process was killed at any point and restarted.
C22_NoReuploadAfterRestart ==
    \A k \in DOMAIN work_queue : work_queue[k] \notin completed

\* the files on the queue, the sentinels left out
QueuedFiles == {work_queue[k] : k \in DOMAIN work_queue} \ {PoisonPill}

\* C23: the supervisor enqueues the files lacking a marker in ascending
\* path order, and it enqueues, and returns from waiting, only when the
\* queue is empty and no worker is processing; so the same file is never
\* on the queue twice, never on the queue while a worker processes it, and
\* never processed by two workers at once.
C23_EnqueueSortedThenDrain ==
    /\ [][(sup_pc = "poll" /\ sup_pc' = "join")
            => /\ work_queue = <<>>
               /\ Processing = {}
               /\ {work_queue'[k] : k \in DOMAIN work_queue'}
                    = videos \ uploaded
               /\ \A j, k \in DOMAIN work_queue' :
                     j < k => work_queue'[j] < work_queue'[k]]_vars
    /\ [][(sup_pc = "join" /\ sup_pc' = "poll")
            => work_queue = <<>> /\ Processing = {}]_vars
    /\ [](\A j, k \in DOMAIN work_queue :
             (j # k /\ work_queue[j] # PoisonPill)
                => work_queue[j] # work_queue[k])
    /\ [](\A w \in Processing : workers[w].video_file \notin QueuedFiles)
    /\ [](\A v, w \in Processing :
             v # w => workers[v].video_file # workers[w].video_file)

\* the second of two files waits on the queue while a worker processes
\* the first
C23_Witness ==
    /\ sup_pc = "join"
    /\ work_queue = <<2>>
    /\ \E w \in Processing : workers[w].video_file = 1

\* C24: on shutdown one sentinel per worker is put on the queue, and when
\* the shutdown is reported complete no worker is in the middle of a task.
C24_ShutdownAfterTasks ==
    /\ [][(sup_pc # "stopping" /\ sup_pc' = "stopping")
            => work_queue' =
                 work_queue \o [k \in 1..Cardinality(DOMAIN workers)
                                   |-> PoisonPill]]_vars
    /\ [](sup_pc = "stopped" => Processing = {})

\* C25: when a run of the single-file mode ends after upload_video returned
\* False, the failure record holds the last failure reason and the exit
\* status is not zero; when it returned True, no failure record is left and
\* the exit status is zero.
C25_FailureRecordAndExitStatus ==
    pc = "exit"
      => /\ retval = "False"
              => exit_code # 0 /\ failure_file = last_failure_reason
         /\ retval = "True"
              => exit_code = 0 /\ failure_file = "none"

\* C26: in continuous mode the end of a task, whatever its outcome (upload
\* failed, bring-up failed, exception), leaves the worker running and
\* waiting for the next item with the task acknowledged, and leaves the
\* supervisor where it was; a worker stops only on a sentinel or on the
\* shutdown flag; while the supervisor polls, the unacknowledged tasks are
\* those still queued or being processed, so its wait for the batch ends.
C26_FailedTaskStopsNobody ==
    /\ [][\A w \in Processing :
            (w \in DOMAIN workers' /\ w \notin Processing')
              => /\ workers'[w].pc = "get"
                 /\ workers'[w].running = workers[w].running
                 /\ unfinished_tasks' = unfinished_tasks - 1
                 /\ sup_pc' = sup_pc]_vars
    /\ [][\A w \in DOMAIN workers :
            (w \in DOMAIN workers' /\ workers[w].pc # "stopped"
               /\ workers'[w].pc = "stopped")
              => /\ workers[w].pc = "get"
                 /\ \/ ~workers[w].running
                    \/ (work_queue # <<>> /\ Head(work_queue) = PoisonPill)]_vars
    /\ [](sup_pc \in {"poll", "join"}
            => unfinished_tasks = Len(work_queue) + Cardinality(Processing))

\* the only worker has taken the second file after the upload of the first
\* one did not succeed
C26_Witness ==
    /\ sup_pc = "join"
    /\ DOMAIN workers = {0}
    /\ workers[0].video_file = 2
    /\ workers[0].running
    /\ 1 \notin completed
    /\ unfinished_tasks = 1

C28_EscalationBringsUpAnotherPath ==
    [][(/\ pc = "raised" /\ pc' = "open"
        /\ exc.cls = "incomplete"
        /\ AllChunksFailed
        /\ Len(chunk_state) >= max_consecutive_timeouts
        /\ ~skip_vpn)
         => IF \E i \in DOMAIN configs : configs[i] # current_config
            THEN /\ Len(selected') = Len(selected) + 1
                 /\ selected'[Len(selected')].path # current_config
            ELSE /\ bringups' = bringups
                 /\ active' = active]_vars

\* the workers past a bring-up that succeeded: in the upload pass or writing
\* the marker, with a config
Connected ==
    {w \in DOMAIN workers :
        workers[w].pc \in {"upload", "mark"} /\ workers[w].config # NoConfig}

\* C30: a continuous-mode worker that brought up its path for a task leaves
\* the upload, whatever its outcome, only into the tear-down of the path,
\* and is back at the queue only by the step that performs the tear-down.
C30_TearDownBeforeNextItem ==
    /\ [][\A w \in Connected :
            (w \in DOMAIN workers' /\ workers'[w].pc # workers[w].pc)
              => workers'[w].pc \in {"mark", "disconnect"}]_vars
    /\ [][\A w \in DOMAIN workers :
            (/\ w \in DOMAIN workers'
             /\ workers[w].pc \in {"upload", "mark", "disconnect"}
             /\ workers[w].config # NoConfig
             /\ workers'[w].pc = "get")
              => /\ workers[w].pc = "disconnect"
                 /\ work_queue' = work_queue]_vars

\* a worker whose upload did not succeed is at the tear-down, its
\* interface still up
C30_Witness ==
    \E w \in DOMAIN workers :
        /\ workers[w].pc = "disconnect"
        /\ w \in DOMAIN interfaces
        /\ workers[w].video_file \notin completed

\* the offset the headers of an answered probe name: the byte after the
\* end of a usable Range, else the value of a usable X-Last-Known-Byte,
\* else 0
NamedOffset(response) ==
    IF response.range.k = "value" THEN response.range.v + 1
    ELSE IF response.xlkb.k = "value" THEN response.xlkb.v
    ELSE 0

\* C31: the resume offset of an answered probe is the end of the range
\* header plus one when that header is usable, else the value of the
\* last-known-byte header when that one is usable, and 0 only when neither
\* is; a range header that is present but unusable does not hide a usable
\* last-known-byte header.
C31_OffsetFromEitherHeader ==
    (pc = "plan" /\ probe_response.status = "ok")
       => start_byte = NamedOffset(probe_response)

\* C32: upload_video has returned True only when every chunk of the plan of
\* the attempt that ended was merged, each as a successful result, and no
\* chunk of that attempt failed.
C32_SuccessOnlyIfAllMerged ==
    retval = "True"
      => /\ Len(chunk_state) = Len(chunks_to_upload)
         /\ \A i \in DOMAIN chunks_to_upload :
               /\ chunk_state[i] = "ok"
               /\ \E k \in DOMAIN merged :
                     merged[k].idx = i /\ merged[k].success
         /\ \A k \in DOMAIN merged : merged[k].success

\* success in the second attempt, with a plan of two chunks or more
C32_Witness ==
    /\ retval = "True"
    /\ attempt = 1
    /\ Len(chunks_to_upload) >= 2
    /\ Len(merged) = Len(chunks_to_upload)

\* C33: chunk transfers of two attempts never overlap: the handler of a
\* failed attempt (reason, escalation, backoff, next attempt or return)
\* runs only when no chunk of the attempt is in flight or still queued, and
\* while the next attempt opens its session, probes and plans no chunk
\* transfer is in flight.
C33_AttemptsDoNotOverlap ==
    /\ [][(pc = "raised" /\ pc' # "raised")
            => Running = {} /\ Queued = {}]_vars
    /\ [][(attempt' # attempt \/ wait_time' # wait_time
             \/ bringups' # bringups \/ teardowns' # teardowns)
            => Running = {} /\ Queued = {}]_vars
    /\ [](pc \in {"open", "probe", "parse", "plan"}
            => Running = {} /\ Queued = {})

\* the attempt was aborted by a failed chunk while another chunk is still
\* in flight: the handler has to wait
C33_Witness ==
    /\ pc = "raised"
    /\ exc.cls = "incomplete"
    /\ Running # {}
    /\ attempt < max_retries - 1

\* C34: with a non-empty pool a worker is in its upload pass only with its
\* interface brought up and recorded; a bring-up that did not succeed sends
\* the worker to the end of the task with nothing uploaded and no marker
\* written, and the file is still without a marker when the worker is back
\* at the queue.
C34_UploadOnlyAfterBringUp ==
    /\ [](\A w \in DOMAIN workers :
             (workers[w].pc \in {"upload", "mark"} /\ Len(configs) > 0)
                => /\ workers[w].config # NoConfig
                   /\ w \in DOMAIN interfaces
                   /\ interfaces[w] = workers[w].config
                   /\ w \in DOMAIN active_connections)
    /\ [][\A w \in DOMAIN workers :
            (/\ w \in DOMAIN workers'
             /\ workers[w].pc = "connect"
             /\ workers'[w].pc \notin {"connect", "upload"})
              => /\ workers'[w].pc = "disconnect"
                 /\ uploaded' = uploaded
                 /\ completed' = completed]_vars
    /\ [][\A w \in DOMAIN workers :
            (/\ w \in DOMAIN workers'
             /\ workers[w].pc = "disconnect"
             /\ workers[w].video_file \notin completed
             /\ workers'[w].pc # "disconnect")
              => /\ workers'[w].pc = "get"
                 /\ workers[w].video_file \in videos \ uploaded']_vars

\* a worker whose bring-up failed is at the end of its task, the file
\* neither uploaded nor marked
C34_Witness ==
    \E w \in DOMAIN workers :
        /\ workers[w].pc = "disconnect"
        /\ w \notin DOMAIN active_connections
        /\ w \notin DOMAIN interfaces
        /\ workers[w].video_file \notin completed \cup uploaded

\* the files on the queue after a step
QueuedFilesNext == {work_queue'[k] : k \in DOMAIN work_queue'} \ {PoisonPill}

\* C35: the marker of a file is written only by a worker for which
\* upload_video returned success for that file, and for that file alone; a
\* file no upload succeeded for has no marker and is put on the queue by
\* every scan.
C35_MarkerOnlyAfterSuccess ==
    /\ [][uploaded' # uploaded
            => \E w \in DOMAIN workers :
                  /\ workers[w].pc = "mark"
                  /\ workers[w].video_file \in completed
                  /\ uploaded' = uploaded \cup {workers[w].video_file}]_vars
    /\ [](uploaded \subseteq completed)
    /\ [][(sup_pc = "poll" /\ sup_pc' = "join")
            => videos \ completed \subseteq QueuedFilesNext]_vars

\* the second scan: the first file, whose upload failed, is on the queue
\* again, the second one is marked
C35_Witness ==
    /\ sup_pc = "join"
    /\ work_queue = <<1>>
    /\ uploaded = {2}
    /\ 1 \notin completed

\* C36: the count of unacknowledged items goes down only by one, in the
\* step in which a worker ends the processing of a file, whatever the
\* outcome, and every such step takes it down; taking a sentinel leaves it
\* alone; and with the workers running, a supervisor that waits for the
\* batch eventually leaves the wait.
C36_EachFileAcknowledgedOnce ==
    /\ [][unfinished_tasks' < unfinished_tasks
            => /\ unfinished_tasks' = unfinished_tasks - 1
               /\ Cardinality({w \in Processing :
                     w \in DOMAIN workers' /\ w \notin Processing'}) = 1]_vars
    /\ [][\A w \in Processing :
            (w \in DOMAIN workers' /\ w \notin Processing')
               => unfinished_tasks' = unfinished_tasks - 1]_vars
    /\ [][(work_queue # <<>> /\ work_queue' = Tail(work_queue)
             /\ Head(work_queue) = PoisonPill)
            => unfinished_tasks' = unfinished_tasks]_vars
    /\ [](sup_pc = "join" => <>(sup_pc # "join"))

\* the wait for a batch of two files has returned; the upload of the first
\* failed, the second is marked
C36_Witness ==
    /\ sup_pc = "poll"
    /\ videos = {1, 2}
    /\ uploaded = {2}
    /\ unfinished_tasks = 0
    /\ work_queue = <<>>

\* C37: with rotation enabled every end of a run of the single-file mode
\* goes through the tear-down, and no path is up once the process has
\* exited.
C37_TearDownOnEveryExit ==
    /\ [][(pc # "exit" /\ pc' = "exit" /\ ~skip_vpn)
            => teardowns' > teardowns]_vars
    /\ []((pc = "exit" /\ ~skip_vpn) => active = {})

\* C38: with rotation disabled no step of a run of the single-file mode
\* brings a path up or tears one down, at the start, in the retry loop or
\* at the exit, no path is selected, and the last-used-path marker keeps
\* its value.
C38_SkipVpnTouchesNoPath ==
    /\ [][skip_vpn
            => /\ ~WgOperation
               /\ selected' = selected]_vars
    /\ [](skip_vpn
            => /\ bringups = 0
               /\ teardowns = 0
               /\ active = {}
               /\ current_config = NoConfig)

\* a run with rotation disabled, a pool and a marker at hand, has ended
\* after its upload failed on chunk failures
C38_Witness ==
    /\ skip_vpn
    /\ pc = "exit"
    /\ retval = "False"
    /\ last_failure_reason = "Incomplete upload"
    /\ Len(configs) > 0
    /\ last_config_file # NoConfig

\* the latest selection of a path and the outcome of its bring-up
LastSelected == selected'[Len(selected')]

\* C39: the last-used-path marker changes only in a bring-up that
\* succeeded or found its path connected, and then names the path brought
\* up, which is the current one and is up; a bring-up that failed leaves
\* the marker as it was; selecting the next path alone writes nothing.
C39_MarkerWrittenBySuccessfulBringUp ==
    /\ [][last_config_file' # last_config_file
            => /\ bringups' = bringups + 1
               /\ Len(selected') = Len(selected) + 1
               /\ LastSelected.ok]_vars
    /\ [][(Len(selected') = Len(selected) + 1 /\ LastSelected.ok)
            => /\ last_config_file' = LastSelected.path
               /\ current_config' = LastSelected.path
               /\ LastSelected.path \in active']_vars
    /\ [][(Len(selected') = Len(selected) + 1 /\ ~LastSelected.ok)
            => last_config_file' = last_config_file]_vars
    /\ [][bringups' = bringups => last_config_file' = last_config_file]_vars
====
